---------------------------- MODULE Spec2Model ----------------------------
(***************************************************************************)
(* Model of contrib/registry/nacos/registry.go: the adapter that maps the  *)
(* framework's ServiceInstance (name, version, metadata, endpoint URLs)    *)
(* onto the naming client's instance records.                              *)
(*                                                                         *)
(* Strings that the code parses, concatenates or formats are sequences of  *)
(* one-character strings, so that url.Parse, net.SplitHostPort,            *)
(* strconv.Atoi and fmt.Sprintf are computed, character by character, the  *)
(* way the Go code computes them.                                          *)
(***************************************************************************)
EXTENDS Integers, Sequences, FiniteSets, TLC

(***************************************************************************)
(* Bounds of the model.                                                    *)
(***************************************************************************)
\* Longest endpoint list of a ServiceInstance.
MaxEndpoints == 2

(***************************************************************************)
(* Characters.                                                             *)
(***************************************************************************)
LowerLetters == {"a", "c", "g", "h", "k", "p", "r", "s", "t", "v", "x"}
UpperLetters == {"C", "G", "P", "R"}
Letters == LowerLetters \cup UpperLetters
Digits == {"0", "1", "2", "3", "4", "5", "6", "7", "8", "9"}

\* strings.ToLower, on the letters of the model
ToLowerChar(c) ==
  CASE c = "C" -> "c" [] c = "G" -> "g" [] c = "P" -> "p" [] c = "R" -> "r"
    [] OTHER -> c
ToLower(s) == [i \in 1..Len(s) |-> ToLowerChar(s[i])]

\* strings.Index / bytealg.IndexByteString: 1-based, 0 when absent (Go: -1)
IndexByte(s, c) ==
  IF \E i \in 1..Len(s) : s[i] = c
  THEN CHOOSE i \in 1..Len(s) : s[i] = c /\ \A j \in 1..(i - 1) : s[j] # c
  ELSE 0

\* strings.LastIndex / bytealg.LastIndexByteString: 1-based, 0 when absent
LastIndexByte(s, c) ==
  IF \E i \in 1..Len(s) : s[i] = c
  THEN CHOOSE i \in 1..Len(s) : s[i] = c /\ \A j \in (i + 1)..Len(s) : s[j] # c
  ELSE 0

HasPrefix(s, p) == Len(s) >= Len(p) /\ SubSeq(s, 1, Len(p)) = p

\* s[from:] with a 1-based first position
Tail_(s, from) == SubSeq(s, from, Len(s))

\* strings.Cut(s, c): the part before the first c (all of s when c is absent)
CutBefore(s, c) ==
  IF IndexByte(s, c) = 0 THEN s ELSE SubSeq(s, 1, IndexByte(s, c) - 1)

(***************************************************************************)
(* net/url: url.Parse, as far as Register and Deregister read its result   *)
(* (Scheme, Host, error).                                                  *)
(***************************************************************************)
NoScheme(raw) == [scheme |-> <<>>, rest |-> raw, err |-> FALSE]

RECURSIVE getSchemeAt(_, _)
getSchemeAt(raw, i) ==
  IF i > Len(raw) THEN NoScheme(raw)
  ELSE IF raw[i] \in Letters THEN getSchemeAt(raw, i + 1)
  ELSE IF raw[i] \in Digits \cup {"+", "-", "."}
    THEN IF i = 1 THEN NoScheme(raw) ELSE getSchemeAt(raw, i + 1)
  ELSE IF raw[i] = ":"
    THEN IF i = 1
         THEN [scheme |-> <<>>, rest |-> <<>>, err |-> TRUE]
         ELSE [scheme |-> SubSeq(raw, 1, i - 1), rest |-> Tail_(raw, i + 1),
               err |-> FALSE]
  ELSE NoScheme(raw)

getScheme(raw) == getSchemeAt(raw, 1)

\* validOptionalPort: "" or ":" followed by digits only
validOptionalPort(port) ==
  \/ port = <<>>
  \/ /\ port[1] = ":"
     /\ \A i \in 2..Len(port) : port[i] \in Digits

\* shouldEscape(c, encodeHost): the bytes a host may not hold unescaped
HostChars == Letters \cup Digits \cup
  {"!", "$", "&", "'", "(", ")", "*", "+", ",", ";", "=", ":", "[", "]",
   "<", ">", "-", "_", ".", "~"}

\* validUserinfo
UserinfoChars == Letters \cup Digits \cup
  {"-", ".", "_", ":", "~", "!", "$", "&", "'", "(", ")", "*", "+", ",",
   ";", "=", "%", "@"}

\* parseHost: [host, err]
parseHost(host) ==
  LET close == LastIndexByte(host, "]")
      colon == LastIndexByte(host, ":")
      portBad ==
        IF HasPrefix(host, <<"[">>)
        THEN close = 0 \/ ~validOptionalPort(Tail_(host, close + 1))
        ELSE colon # 0 /\ ~validOptionalPort(Tail_(host, colon))
      charBad == \E i \in 1..Len(host) : host[i] \notin HostChars
  IN IF portBad \/ charBad
     THEN [host |-> <<>>, err |-> TRUE]
     ELSE [host |-> host, err |-> FALSE]

\* parseAuthority: the host follows the last "@"; the userinfo must be valid
parseAuthority(authority) ==
  LET at == LastIndexByte(authority, "@")
      h == parseHost(Tail_(authority, at + 1))
      user == SubSeq(authority, 1, at - 1)
  IN IF h.err THEN h
     ELSE IF at # 0 /\ \E i \in 1..Len(user) : user[i] \notin UserinfoChars
     THEN [host |-> <<>>, err |-> TRUE]
     ELSE h

\* url.Parse(rawURL): [Scheme, Host, err]
UrlError == [Scheme |-> <<>>, Host |-> <<>>, err |-> TRUE]

urlParse(rawURL) ==
  LET u == CutBefore(rawURL, "#")
      s == getScheme(u)
      scheme == ToLower(s.scheme)
      rest == CutBefore(s.rest, "?")
      authority == CutBefore(Tail_(rest, 3), "/")
      a == parseAuthority(authority)
  IN IF u = <<"*">> THEN [Scheme |-> <<>>, Host |-> <<>>, err |-> FALSE]
     ELSE IF s.err THEN UrlError
     ELSE IF ~HasPrefix(rest, <<"/">>) /\ scheme # <<>>
       THEN [Scheme |-> scheme, Host |-> <<>>, err |-> FALSE]   \* opaque
     ELSE IF ~HasPrefix(rest, <<"/">>) /\ IndexByte(CutBefore(rest, "/"), ":") # 0
       THEN UrlError                \* first path segment cannot contain colon
     ELSE IF (scheme # <<>> \/ ~HasPrefix(rest, <<"/", "/", "/">>))
             /\ HasPrefix(rest, <<"/", "/">>)
       THEN IF a.err THEN UrlError
            ELSE [Scheme |-> scheme, Host |-> a.host, err |-> FALSE]
     ELSE [Scheme |-> scheme, Host |-> <<>>, err |-> FALSE]

(***************************************************************************)
(* net.SplitHostPort: [host, port, err]                                    *)
(***************************************************************************)
AddrError == [host |-> <<>>, port |-> <<>>, err |-> TRUE]

SplitHostPort(hostport) ==
  LET i == LastIndexByte(hostport, ":")
      end == IndexByte(hostport, "]")
      bracket == hostport[1] = "["
      host == IF bracket THEN SubSeq(hostport, 2, end - 1)
              ELSE SubSeq(hostport, 1, i - 1)
      j == IF bracket THEN 2 ELSE 1
      k == IF bracket THEN end + 1 ELSE 1
  IN IF i = 0 THEN AddrError                        \* missing port
     ELSE IF bracket /\ end = 0 THEN AddrError      \* missing ']'
     ELSE IF bracket /\ end + 1 # i THEN AddrError  \* missing port, too many colons
     ELSE IF ~bracket /\ IndexByte(host, ":") # 0 THEN AddrError
     ELSE IF IndexByte(Tail_(hostport, j), "[") # 0 THEN AddrError
     ELSE IF IndexByte(Tail_(hostport, k), "]") # 0 THEN AddrError
     ELSE [host |-> host, port |-> Tail_(hostport, i + 1), err |-> FALSE]

(***************************************************************************)
(* strconv.Atoi and the %d verb of fmt.Sprintf                             *)
(***************************************************************************)
DigitValue(c) ==
  CASE c = "0" -> 0 [] c = "1" -> 1 [] c = "2" -> 2 [] c = "3" -> 3
    [] c = "4" -> 4 [] c = "5" -> 5 [] c = "6" -> 6 [] c = "7" -> 7
    [] c = "8" -> 8 [] c = "9" -> 9

DigitChar(d) ==
  CASE d = 0 -> "0" [] d = 1 -> "1" [] d = 2 -> "2" [] d = 3 -> "3"
    [] d = 4 -> "4" [] d = 5 -> "5" [] d = 6 -> "6" [] d = 7 -> "7"
    [] d = 8 -> "8" [] d = 9 -> "9"

RECURSIVE ParseDigits(_, _)
ParseDigits(s, acc) ==
  IF s = <<>> THEN acc ELSE ParseDigits(Tail(s), acc * 10 + DigitValue(s[1]))

\* strconv.Atoi: [n, err]; a sign may lead, then one digit at least
Atoi(s) ==
  LET signed == s # <<>> /\ s[1] \in {"+", "-"}
      body == IF signed THEN Tail(s) ELSE s
  IN IF body = <<>> \/ \E i \in 1..Len(body) : body[i] \notin Digits
     THEN [n |-> 0, err |-> TRUE]
     ELSE [n |-> IF signed /\ s[1] = "-" THEN 0 - ParseDigits(body, 0)
                 ELSE ParseDigits(body, 0),
           err |-> FALSE]

RECURSIVE FormatUint(_)
FormatUint(n) ==
  IF n < 10 THEN <<DigitChar(n)>>
  ELSE Append(FormatUint(n \div 10), DigitChar(n % 10))

(***************************************************************************)
(* Options and New                                                         *)
(***************************************************************************)
DefaultWeight == 100

grpc == <<"g", "r", "p", "c">>
http == <<"h", "t", "t", "p">>

\* New's defaults; constant.DEFAULT_GROUP is "DEFAULT_GROUP"
DefaultOptions ==
  [prefix |-> "/microservices", cluster |-> "DEFAULT", group |-> "DEFAULT_GROUP",
   weight |-> DefaultWeight, kind |-> grpc]

\* An Option sets one field: WithPrefix, WithWeight, WithCluster, WithGroup,
\* WithDefaultKind
WithPrefix(prefix) == [field |-> "prefix", value |-> prefix]
WithWeight(weight) == [field |-> "weight", value |-> weight]
WithCluster(cluster) == [field |-> "cluster", value |-> cluster]
WithGroup(group) == [field |-> "group", value |-> group]
WithDefaultKind(kind) == [field |-> "kind", value |-> kind]

ApplyOption(op, option) ==
  [f \in DOMAIN op |-> IF f = option.field THEN option.value ELSE op[f]]

RECURSIVE ApplyOptions(_, _)
ApplyOptions(op, options) ==
  IF options = <<>> THEN op
  ELSE ApplyOptions(ApplyOption(op, Head(options)), Tail(options))

\* New(cli, opts...): the options of the Registry
New(options) == ApplyOptions(DefaultOptions, options)

\* The option lists the adapters of the model are built with
OptionLists ==
  { <<>>,
    <<WithPrefix("/ms"), WithWeight(10), WithCluster("c1"), WithGroup("g1"),
      WithDefaultKind(http)>> }

(***************************************************************************)
(* Inputs: endpoints are written from their parts, so that what an         *)
(* endpoint was meant to hold is known apart from what the parsers find.   *)
(***************************************************************************)
Part(scheme, host, hasPort, port, path) ==
  [scheme |-> scheme, host |-> host, hasPort |-> hasPort, port |-> port,
   path |-> path]

\* scheme "://" host [":" port] path
Raw(p) ==
  p.scheme \o <<":", "/", "/">> \o p.host
    \o (IF p.hasPort THEN <<":">> \o p.port ELSE <<>>) \o p.path

\* scheme://host:port with a lower-case scheme, a plain host and a decimal port
CanonicalParts ==
  { Part(grpc, <<"h">>, TRUE, <<"1">>, <<>>),
    Part(http, <<"h">>, TRUE, <<"2">>, <<>>) }

\* well-formed URLs that are not in that form
VariantParts ==
  { Part(<<"G", "R", "P", "C">>, <<"h">>, TRUE, <<"1">>, <<>>),   \* upper-case scheme
    Part(grpc, <<"h">>, TRUE, <<"0", "1">>, <<>>),                \* leading zero
    Part(grpc, <<"[", ":", ":", "1", "]">>, TRUE, <<"1">>, <<>>), \* IPv6 literal
    Part(grpc, <<"h">>, TRUE, <<"1">>, <<"/", "p">>) }            \* path

\* malformed endpoints
MalformedParts ==
  { Part(grpc, <<>>, TRUE, <<"1">>, <<>>),        \* missing host
    Part(grpc, <<"h">>, FALSE, <<>>, <<>>),       \* missing port: grpc://h
    Part(grpc, <<"h">>, TRUE, <<>>, <<>>),        \* missing port: grpc://h:
    Part(grpc, <<"h">>, TRUE, <<"x">>, <<>>),     \* non-integer port
    Part(<<>>, <<"h">>, TRUE, <<"1">>, <<>>) }    \* unparseable: ://h:1

EndpointParts == CanonicalParts \cup VariantParts \cup MalformedParts
EndpointSet == { Raw(p) : p \in EndpointParts }

\* the parts an endpoint of the model was written from
PartsOf(endpoint) == CHOOSE p \in EndpointParts : Raw(p) = endpoint

RECURSIVE SeqsUpTo(_, _)
SeqsUpTo(S, n) ==
  IF n = 0 THEN { <<>> }
  ELSE LET shorter == SeqsUpTo(S, n - 1)
       IN shorter \cup { Append(q, x) : q \in { r \in shorter : Len(r) = n - 1 }, x \in S }

svc == <<"s", "v", "c">>
v1 == <<"v", "1">>
NameSet == { <<>>, svc }

\* ServiceInstance.Metadata: none, or a map that sets "kind" (a key Register
\* writes too), leaves "version" out and holds a key of the caller's own
MetadataSet ==
  { <<>>,
    [k \in {"kind", "zone"} |-> IF k = "kind" THEN http ELSE <<"a">>] }

\* Endpoint lists of at most MaxEndpoints entries, at most one of them outside
\* the canonical form
NonCanonical(list) == { i \in 1..Len(list) : PartsOf(list[i]) \notin CanonicalParts }
EndpointLists ==
  { list \in SeqsUpTo(EndpointSet, MaxEndpoints) : Cardinality(NonCanonical(list)) <= 1 }

\* registry.ServiceInstance (ID is not read by the registrar)
InstanceSet ==
  [Name : NameSet, Version : {v1}, Metadata : MetadataSet,
   Endpoints : EndpointLists]

(***************************************************************************)
(* The naming client behind the adapter: a store of instance records, one  *)
(* per key, that keeps what RegisterInstance receives.                     *)
(***************************************************************************)
KeyOf(x) == <<x.Ip, x.Port, x.ServiceName, x.ClusterName, x.GroupName>>

\* the record the client keeps for a RegisterInstanceParam
RecordOf(param) ==
  [InstanceId |-> KeyOf(param), Ip |-> param.Ip, Port |-> param.Port,
   ServiceName |-> param.ServiceName, Weight |-> param.Weight,
   Enable |-> param.Enable, Healthy |-> param.Healthy,
   Ephemeral |-> param.Ephemeral, Metadata |-> param.Metadata,
   ClusterName |-> param.ClusterName, GroupName |-> param.GroupName]

\* RegisterInstance: the record replaces the one of the same key, or is added
ClientRegisterInstance(st, param) ==
  IF \E i \in 1..Len(st) : KeyOf(st[i]) = KeyOf(param)
  THEN [i \in 1..Len(st) |->
          IF KeyOf(st[i]) = KeyOf(param) THEN RecordOf(param) ELSE st[i]]
  ELSE Append(st, RecordOf(param))

\* DeregisterInstance: the record of the key is dropped
ClientDeregisterInstance(st, param) ==
  LET key == <<param.Ip, param.Port, param.ServiceName, param.Cluster,
               param.GroupName>>
      Keep(rec) == KeyOf(rec) # key
  IN SelectSeq(st, Keep)

\* SelectInstances: the records of the service and group, healthy ones only
\* when HealthyOnly is set, in the store's order
ClientSelectInstances(st, param) ==
  LET Match(rec) ==
        /\ rec.ServiceName = param.ServiceName
        /\ rec.GroupName = param.GroupName
        /\ (param.HealthyOnly => rec.Healthy)
  IN SelectSeq(st, Match)

(***************************************************************************)
(* Errors                                                                  *)
(***************************************************************************)
Err(code, endpoint) == [code |-> code, endpoint |-> endpoint]
Nil == Err("nil", <<>>)
ErrServiceInstanceNameEmpty == Err("ErrServiceInstanceNameEmpty", <<>>)

(***************************************************************************)
(* Register                                                                *)
(***************************************************************************)
\* lines 81-92 and 118-129: url.Parse, net.SplitHostPort, strconv.Atoi
ParseOne(endpoint) ==
  LET Port(u, hp, p) ==
        IF p.err THEN [err |-> Err("strconv.Atoi", <<>>)]
        ELSE [err |-> Nil, Scheme |-> u.Scheme, host |-> hp.host, p |-> p.n]
      HostPort(u, hp) ==
        IF hp.err THEN [err |-> Err("net.SplitHostPort", <<>>)]
        ELSE Port(u, hp, Atoi(hp.port))
      Parsed(u) ==
        IF u.err THEN [err |-> Err("url.Parse", <<>>)]
        ELSE HostPort(u, SplitHostPort(u.Host))
  IN Parsed(urlParse(endpoint))

\* ParseOne, computed once for each endpoint of the model
ParseTable == [endpoint \in EndpointSet |-> ParseOne(endpoint)]
ParseEndpoint(endpoint) == ParseTable[endpoint]

\* a Register that does not check the name
NameEmptyUnchecked(name) == FALSE

\* si.Name == ""
NameEmpty(name) == name = <<>>

\* a service name without the scheme
ComposeServiceNameBare(name, scheme) == name

\* si.Name + "." + u.Scheme
ComposeServiceName(name, scheme) == name \o <<".">> \o scheme

\* an overlay in which the tags Register writes win over the instance's keys
MergeMetadataTagsWin(scheme, version, metadata) ==
  [k \in {"kind", "version"} \cup DOMAIN metadata |->
     IF k = "kind" THEN scheme ELSE IF k = "version" THEN version
     ELSE metadata[k]]

\* meta := {"kind": u.Scheme, "version": si.Version}; for k, v := range
\* si.Metadata { meta[k] = v }
MergeMetadata(scheme, version, metadata) ==
  [k \in {"kind", "version"} \cup DOMAIN metadata |->
     IF k \in DOMAIN metadata THEN metadata[k]
     ELSE IF k = "kind" THEN scheme ELSE version]

\* si.Metadata after lines 93-96: meta is a map of its own, the range loop
\* only reads si.Metadata
MetadataAfterMerge(scheme, version, metadata) == metadata

\* vo.RegisterInstanceParam of lines 97-108
RegisterParam(o, name, pe, meta) ==
  [Ip |-> pe.host, Port |-> pe.p,
   ServiceName |-> ComposeServiceName(name, pe.Scheme),
   Weight |-> o.weight, Enable |-> TRUE, Healthy |-> TRUE, Ephemeral |-> TRUE,
   Metadata |-> meta, ClusterName |-> o.cluster, GroupName |-> o.group]

\* a loop that goes on after the client's error
RegisterCallErrIgnored(clientFailed, endpoint) == Nil

\* lines 109-111: what the loop returns after the client's answer, Nil to go on
RegisterCallErr(clientFailed, endpoint) ==
  IF clientFailed THEN Err("RegisterInstance err", endpoint) ELSE Nil

\* The loop of lines 80-112 from endpoint i on. failAt is the position of the
\* endpoint on which the client fails (0: on none). Result: the store, the
\* calls issued, the instance and the error.
RECURSIVE RegisterFrom(_, _, _, _, _, _)
RegisterFrom(o, inst, i, st, calls, failAt) ==
  IF i > Len(inst.Endpoints)
  THEN [store |-> st, calls |-> calls, si |-> inst, err |-> Nil]
  ELSE
    LET endpoint == inst.Endpoints[i]
        clientFailed == i = failAt
        Called(inst2, st2, calls2, e) ==
          IF e # Nil
          THEN [store |-> st2, calls |-> calls2, si |-> inst2, err |-> e]
          ELSE RegisterFrom(o, inst2, i + 1, st2, calls2, failAt)
        Call(inst2, param) ==
          Called(inst2,
                 IF clientFailed THEN st ELSE ClientRegisterInstance(st, param),
                 Append(calls, param),
                 RegisterCallErr(clientFailed, endpoint))
        Merged(pe, meta) ==
          Call([inst EXCEPT !.Metadata =
                  MetadataAfterMerge(pe.Scheme, inst.Version, inst.Metadata)],
               RegisterParam(o, inst.Name, pe, meta))
        Parsed(pe) ==
          IF pe.err # Nil
          THEN [store |-> st, calls |-> calls, si |-> inst, err |-> pe.err]
          ELSE Merged(pe, MergeMetadata(pe.Scheme, inst.Version, inst.Metadata))
    IN Parsed(ParseEndpoint(endpoint))

\* Registry.Register
RegisterResult(o, inst, st, failAt) ==
  IF NameEmpty(inst.Name)
  THEN [store |-> st, calls |-> <<>>, si |-> inst,
        err |-> ErrServiceInstanceNameEmpty]
  ELSE RegisterFrom(o, inst, 1, st, <<>>, failAt)

(***************************************************************************)
(* Deregister                                                              *)
(***************************************************************************)
\* a deregistration keyed by the bare name
DeregisterParamBareName(o, name, pe) ==
  [Ip |-> pe.host, Port |-> pe.p, ServiceName |-> name,
   GroupName |-> o.group, Cluster |-> o.cluster, Ephemeral |-> TRUE]

\* vo.DeregisterInstanceParam of lines 130-137
DeregisterParam(o, name, pe) ==
  [Ip |-> pe.host, Port |-> pe.p,
   ServiceName |-> ComposeServiceName(name, pe.Scheme),
   GroupName |-> o.group, Cluster |-> o.cluster, Ephemeral |-> TRUE]

\* a loop that goes on after the client's error
DeregisterCallErrIgnored(clientFailed, endpoint) == Nil

\* lines 138-140: the client's error is returned as it is
DeregisterCallErr(clientFailed, endpoint) ==
  IF clientFailed THEN Err("DeregisterInstance err", <<>>) ELSE Nil

\* The loop of lines 117-141 from endpoint i on
RECURSIVE DeregisterFrom(_, _, _, _, _, _)
DeregisterFrom(o, inst, i, st, calls, failAt) ==
  IF i > Len(inst.Endpoints)
  THEN [store |-> st, calls |-> calls, err |-> Nil]
  ELSE
    LET endpoint == inst.Endpoints[i]
        clientFailed == i = failAt
        Called(st2, calls2, e) ==
          IF e # Nil
          THEN [store |-> st2, calls |-> calls2, err |-> e]
          ELSE DeregisterFrom(o, inst, i + 1, st2, calls2, failAt)
        Call(param) ==
          Called(IF clientFailed THEN st ELSE ClientDeregisterInstance(st, param),
                 Append(calls, param),
                 DeregisterCallErr(clientFailed, endpoint))
        Parsed(pe) ==
          IF pe.err # Nil
          THEN [store |-> st, calls |-> calls, err |-> pe.err]
          ELSE Call(DeregisterParam(o, inst.Name, pe))
    IN Parsed(ParseEndpoint(endpoint))

\* Registry.Deregister
DeregisterResult(o, inst, st, failAt) == DeregisterFrom(o, inst, 1, st, <<>>, failAt)

(***************************************************************************)
(* GetService                                                              *)
(***************************************************************************)
\* a query that asks for unhealthy instances too
SelectParamAnyHealth(o, serviceName) ==
  [ServiceName |-> serviceName, GroupName |-> o.group, HealthyOnly |-> FALSE]

\* vo.SelectInstancesParam of lines 150-154
SelectParam(o, serviceName) ==
  [ServiceName |-> serviceName, GroupName |-> o.group, HealthyOnly |-> TRUE]

\* a kind that is always the configured default
KindOfDefault(o, metadata) == o.kind

\* lines 160-163: the kind of a record
KindOf(o, metadata) ==
  IF "kind" \in DOMAIN metadata THEN metadata["kind"] ELSE o.kind

\* in.Metadata["version"]: the zero value when the key is absent
VersionOf(metadata) ==
  IF "version" \in DOMAIN metadata THEN metadata["version"] ELSE <<>>

\* fmt.Sprintf("%s://%s:%d", kind, in.Ip, in.Port)
FormatEndpoint(kind, ip, port) ==
  kind \o <<":", "/", "/">> \o ip \o <<":">> \o FormatUint(port)

\* lines 164-170: the ServiceInstance of a record
InstanceOf(o, in) ==
  [ID |-> in.InstanceId, Name |-> in.ServiceName,
   Version |-> VersionOf(in.Metadata), Metadata |-> in.Metadata,
   Endpoints |-> <<FormatEndpoint(KindOf(o, in.Metadata), in.Ip, in.Port)>>]

\* Registry.GetService: [param, items, err]
GetServiceResult(o, serviceName, st, clientFailed) ==
  LET param == SelectParam(o, serviceName)
      res == ClientSelectInstances(st, param)
  IN IF clientFailed
     THEN [param |-> param, items |-> <<>>, err |-> Err("SelectInstances err", <<>>)]
     ELSE [param |-> param, items |-> [i \in 1..Len(res) |-> InstanceOf(o, res[i])],
           err |-> Nil]

(***************************************************************************)
(* The state machine: one adapter, the instance its caller holds, and the  *)
(* naming client's store.                                                  *)
(***************************************************************************)
VARIABLES
  opts,    \* Registry.opts, fixed by New
  si,      \* the ServiceInstance the caller registers and deregisters
  store,   \* the naming client's records
  last,    \* the last call on the adapter: what it sent and what it returned
  run,     \* the caller's view of its calls: whether its last Register or
           \* Deregister call was a Register that succeeded, and its run of
           \* Register calls (the store when the run began, whether a call of
           \* the run has failed, whether the run is still to succeed)
  watch    \* the context the caller passes to Watch, the names it asked to
           \* watch, and the watcher sessions made for them

vars == <<opts, si, store, last, run, watch>>

\* pre: whether the instance was registered when the call was made
NoCall == [op |-> "none", arg |-> <<>>, calls |-> <<>>, failed |-> 0,
           err |-> Nil, items |-> <<>>, pre |-> FALSE]

NoRun == [registered |-> FALSE, base |-> <<>>, failures |-> FALSE, open |-> FALSE]

NoWatch == [ctx |-> "live", asked |-> <<>>, sessions |-> <<>>]

\* the names GetService is asked for
QueryNames == { ComposeServiceName(svc, grpc), ComposeServiceName(svc, http) }

Init ==
  /\ opts \in { New(options) : options \in OptionLists }
  /\ si \in InstanceSet
  /\ store = <<>>
  /\ last = NoCall
  /\ run = NoRun
  /\ watch = NoWatch

\* the position of the call the client failed, 0 when it failed none
FailedCall(failAt, calls) == IF failAt \in 1..Len(calls) THEN failAt ELSE 0

\* Register(ctx, si); the client fails on endpoint failAt
Register ==
  \E failAt \in 0..Len(si.Endpoints) :
    LET r == RegisterResult(opts, si, store, failAt)
    IN /\ store' = r.store
       /\ si' = r.si
       /\ last' = [op |-> "Register", arg |-> <<>>, calls |-> r.calls,
                   failed |-> FailedCall(failAt, r.calls), err |-> r.err,
                   items |-> <<>>, pre |-> run.registered]
       /\ run' = IF r.err = Nil /\ ~run.open
                 THEN [NoRun EXCEPT !.registered = TRUE]
                 ELSE [registered |-> r.err = Nil,
                       base |-> IF run.open THEN run.base ELSE store,
                       failures |-> run.open, open |-> r.err # Nil]
       /\ UNCHANGED <<opts, watch>>

\* Deregister(ctx, si); the client fails on endpoint failAt
Deregister ==
  \E failAt \in 0..Len(si.Endpoints) :
    LET r == DeregisterResult(opts, si, store, failAt)
    IN /\ store' = r.store
       /\ last' = [op |-> "Deregister", arg |-> <<>>, calls |-> r.calls,
                   failed |-> FailedCall(failAt, r.calls), err |-> r.err,
                   items |-> <<>>, pre |-> run.registered]
       /\ run' = NoRun
       /\ UNCHANGED <<opts, si, watch>>

\* GetService(ctx, serviceName); the client may fail
GetService ==
  \E serviceName \in QueryNames, clientFailed \in BOOLEAN :
    LET r == GetServiceResult(opts, serviceName, store, clientFailed)
    IN /\ last' = [op |-> "GetService", arg |-> serviceName,
                   calls |-> <<r.param>>,
                   failed |-> IF clientFailed THEN 1 ELSE 0, err |-> r.err,
                   items |-> r.items, pre |-> run.registered]
       /\ UNCHANGED <<opts, si, store, run, watch>>

Next == Register \/ Deregister \/ GetService

Spec == Init /\ [][Next]_vars

(***************************************************************************)
(* Discovery: the naming service is shared. Other processes register       *)
(* records with it, its health tracking marks them, and ephemeral records  *)
(* go away; GetService reads what is there. last describes the store as   *)
(* the last call left or found it: a change of the store by others clears  *)
(* it.                                                                     *)
(***************************************************************************)
\* Most records the naming service holds
MaxRecords == 2

\* what other processes register: records with and without the "kind" and
\* "version" tags, in the adapter's group and in another one
PeerParams(o) ==
  LET P(name, port, meta, group) ==
        [Ip |-> <<"h">>, Port |-> port, ServiceName |-> name, Weight |-> 1,
         Enable |-> TRUE, Healthy |-> TRUE, Ephemeral |-> TRUE,
         Metadata |-> meta, ClusterName |-> o.cluster, GroupName |-> group]
      tagged == [k \in {"kind", "version"} |-> IF k = "kind" THEN http ELSE v1]
  IN { P(ComposeServiceName(svc, grpc), 1, <<>>, o.group),
       P(ComposeServiceName(svc, grpc), 80, tagged, o.group),
       P(ComposeServiceName(svc, grpc), 2, tagged, "other"),
       P(ComposeServiceName(svc, http), 1, tagged, o.group) }

DiscoveryInit ==
  /\ opts \in { New(options) : options \in OptionLists }
  /\ si = [Name |-> svc, Version |-> v1, Metadata |-> <<>>, Endpoints |-> <<>>]
  /\ store = <<>>
  /\ last = NoCall
  /\ run = NoRun
  /\ watch = NoWatch

\* another process registers an instance
PeerRegister ==
  \E param \in PeerParams(opts) :
    /\ Len(ClientRegisterInstance(store, param)) <= MaxRecords
    /\ store' = ClientRegisterInstance(store, param)
    /\ last' = NoCall
    /\ UNCHANGED <<opts, si, run, watch>>

\* the naming service's health tracking marks a record
HealthChange ==
  \E i \in 1..Len(store) :
    /\ store' = [store EXCEPT ![i].Healthy = ~store[i].Healthy]
    /\ last' = NoCall
    /\ UNCHANGED <<opts, si, run, watch>>

\* an ephemeral record goes away
InstanceGone ==
  \E i \in 1..Len(store) :
    /\ store' = [j \in 1..(Len(store) - 1) |-> IF j < i THEN store[j] ELSE store[j + 1]]
    /\ last' = NoCall
    /\ UNCHANGED <<opts, si, run, watch>>

DiscoveryNext == PeerRegister \/ HealthChange \/ InstanceGone \/ GetService

DiscoverySpec == DiscoveryInit /\ [][DiscoveryNext]_vars

(***************************************************************************)
(* Watch. Registry.Watch hands the context, the client, the name and the   *)
(* configured group, kind and cluster to newWatcher. The watcher itself is *)
(* modelled from its contract: a session subscribed on the client, a Next  *)
(* that blocks until a change is there or the context is cancelled, a      *)
(* subscription that is released on cancellation or by Stop.               *)
(***************************************************************************)
\* Most Watch calls of a behaviour
MaxWatchers == 2

\* the names Watch is asked for
WatchNames == QueryNames

\* a session that is not given the configured cluster
WatchArgsNoCluster(o, serviceName) ==
  [serviceName |-> serviceName, group |-> o.group, kind |-> o.kind,
   clusters |-> <<>>]

\* line 146: the arguments of newWatcher
WatchArgs(o, serviceName) ==
  [serviceName |-> serviceName, group |-> o.group, kind |-> o.kind,
   clusters |-> <<o.cluster>>]

\* newWatcher: a session subscribed on the client for its arguments, with no
\* change to hand out and no Next under way
newWatcher(args) ==
  [args |-> args, subscribed |-> TRUE, pending |-> FALSE, next |-> "idle"]

WatchInit ==
  /\ opts \in { New(options) : options \in OptionLists }
  /\ si = [Name |-> svc, Version |-> v1, Metadata |-> <<>>, Endpoints |-> <<>>]
  /\ store = <<>>
  /\ last = NoCall
  /\ run = NoRun
  /\ watch = NoWatch

Sessions == 1..Len(watch.sessions)

\* Registry.Watch(ctx, serviceName)
Watch ==
  \E serviceName \in WatchNames :
    /\ Len(watch.sessions) < MaxWatchers
    /\ watch' = [watch EXCEPT
                   !.asked = Append(@, serviceName),
                   !.sessions = Append(@, newWatcher(WatchArgs(opts, serviceName)))]
    /\ UNCHANGED <<opts, si, store, last, run>>

\* the caller cancels the context it passed to Watch
Cancel ==
  /\ watch.ctx = "live"
  /\ watch' = [watch EXCEPT !.ctx = "cancelled"]
  /\ UNCHANGED <<opts, si, store, last, run>>

\* the client's subscription callback: the instance set has changed
Notify(i) ==
  /\ i \in Sessions
  /\ watch.sessions[i].subscribed
  /\ ~watch.sessions[i].pending
  /\ watch' = [watch EXCEPT !.sessions[i].pending = TRUE]
  /\ UNCHANGED <<opts, si, store, last, run>>

\* the caller calls Next, which blocks
CallNext(i) ==
  /\ i \in Sessions
  /\ watch.sessions[i].next # "blocked"
  /\ watch' = [watch EXCEPT !.sessions[i].next = "blocked"]
  /\ UNCHANGED <<opts, si, store, last, run>>

\* Next returns: with the cancellation when the context is cancelled, with
\* the instances when a change is there
NextReturn(i) ==
  /\ i \in Sessions
  /\ watch.sessions[i].next = "blocked"
  /\ \/ /\ watch.ctx = "cancelled"
        /\ watch' = [watch EXCEPT !.sessions[i].next = "cancelled"]
     \/ /\ watch.ctx = "live"
        /\ watch.sessions[i].pending
        /\ watch' = [watch EXCEPT !.sessions[i].next = "instances",
                                  !.sessions[i].pending = FALSE]
  /\ UNCHANGED <<opts, si, store, last, run>>

\* the watcher unsubscribes from the client once its context is cancelled
Release(i) ==
  /\ i \in Sessions
  /\ watch.ctx = "cancelled"
  /\ watch.sessions[i].subscribed
  /\ watch' = [watch EXCEPT !.sessions[i].subscribed = FALSE,
                            !.sessions[i].pending = FALSE]
  /\ UNCHANGED <<opts, si, store, last, run>>

\* Stop: the caller releases the subscription
Stop(i) ==
  /\ i \in Sessions
  /\ watch.sessions[i].subscribed
  /\ watch' = [watch EXCEPT !.sessions[i].subscribed = FALSE,
                            !.sessions[i].pending = FALSE]
  /\ UNCHANGED <<opts, si, store, last, run>>

WatchNext ==
  \/ Watch
  \/ Cancel
  \/ \E i \in 1..MaxWatchers : Notify(i)
  \/ \E i \in 1..MaxWatchers : CallNext(i)
  \/ \E i \in 1..MaxWatchers : NextReturn(i)
  \/ \E i \in 1..MaxWatchers : Release(i)
  \/ \E i \in 1..MaxWatchers : Stop(i)

\* a Next that can return does return, and a watcher whose context is
\* cancelled does unsubscribe: both are steps of running goroutines
WatchSpec ==
  /\ WatchInit
  /\ [][WatchNext]_vars
  /\ \A i \in 1..MaxWatchers : WF_vars(NextReturn(i)) /\ WF_vars(Release(i))

(***************************************************************************)
(* What an endpoint was written to mean, from its parts                    *)
(***************************************************************************)
WellFormed(endpoint) == PartsOf(endpoint) \in CanonicalParts \cup VariantParts
Canonical(endpoint) == PartsOf(endpoint) \in CanonicalParts
Malformed(endpoint) == PartsOf(endpoint) \in MalformedParts

\* schemes compare without case; an IPv6 literal stands in brackets
SchemeOfParts(p) == ToLower(p.scheme)
HostOfParts(p) ==
  IF p.host # <<>> /\ p.host[1] = "[" THEN SubSeq(p.host, 2, Len(p.host) - 1)
  ELSE p.host
PortOfParts(p) == ParseDigits(p.port, 0)

AllWellFormed(inst) == \A i \in 1..Len(inst.Endpoints) : WellFormed(inst.Endpoints[i])
AllCanonical(inst) == \A i \in 1..Len(inst.Endpoints) : Canonical(inst.Endpoints[i])

\* the composed name and the key of the record of an endpoint
NameOfEndpoint(inst, endpoint) ==
  inst.Name \o <<".">> \o SchemeOfParts(PartsOf(endpoint))
KeyOfEndpoint(o, inst, endpoint) ==
  <<HostOfParts(PartsOf(endpoint)), PortOfParts(PartsOf(endpoint)),
    NameOfEndpoint(inst, endpoint), o.cluster, o.group>>

\* the endpoint strings of the items GetService returned
ReturnedEndpoints == { last.items[i].Endpoints : i \in 1..Len(last.items) }
\* the endpoints of the instance under the name GetService was asked for
AskedEndpoints ==
  { <<si.Endpoints[i]>> : i \in { j \in 1..Len(si.Endpoints) :
                                    NameOfEndpoint(si, si.Endpoints[j]) = last.arg } }

AfterRegisterThenGetService ==
  /\ last.op = "GetService"
  /\ last.err = Nil
  /\ run.registered
  /\ si.Name # <<>>

(***************************************************************************)
(* C1, as stated: for all non-empty names and well-formed endpoint lists,  *)
(* Register(si) followed by GetService returns instances whose endpoint    *)
(* strings equal the endpoints supplied. Well-formed is read here in the   *)
(* narrowest way, as the canonical form scheme://host:port.                *)
(***************************************************************************)
C1_RoundTripAsStated ==
  (AfterRegisterThenGetService /\ AllCanonical(si))
    => ReturnedEndpoints = AskedEndpoints

\* the instance's metadata does not set a "kind" other than the scheme of
\* each of its endpoints
KindNotOverridden(inst) ==
  "kind" \in DOMAIN inst.Metadata =>
    \A i \in 1..Len(inst.Endpoints) :
      inst.Metadata["kind"] = SchemeOfParts(PartsOf(inst.Endpoints[i]))

(***************************************************************************)
(* C1, amended: for non-empty names, endpoint lists in the canonical form  *)
(* scheme://host:port (lower-case scheme, host without brackets, decimal   *)
(* port without leading zeros, nothing after the port) and metadata that   *)
(* sets no "kind" other than the endpoints' scheme, Register(si) followed  *)
(* by GetService(Name.scheme) returns exactly the endpoints of that scheme.*)
(***************************************************************************)
C1_RoundTripCanonical ==
  (AfterRegisterThenGetService /\ AllCanonical(si) /\ KindNotOverridden(si))
    => ReturnedEndpoints = AskedEndpoints

C1_Witness ==
  /\ AfterRegisterThenGetService
  /\ AllCanonical(si)
  /\ KindNotOverridden(si)
  /\ Len(si.Endpoints) = 2
  /\ si.Endpoints[1] # si.Endpoints[2]
  /\ Len(last.items) = 1
  /\ last.items[1].Endpoints = <<si.Endpoints[2]>>

(***************************************************************************)
(* C2: Register on an instance whose Name is empty returns                 *)
(* ErrServiceInstanceNameEmpty, whatever the endpoints, version and        *)
(* metadata, and issues no call to the client.                             *)
(***************************************************************************)
C2_EmptyNameRejected ==
  (last.op = "Register" /\ si.Name = <<>>)
    => /\ last.err = ErrServiceInstanceNameEmpty
       /\ last.calls = <<>>
       /\ store = <<>>

C2_Witness ==
  /\ last.op = "Register"
  /\ si.Name = <<>>
  /\ Len(si.Endpoints) = 2
  /\ AllCanonical(si)
  /\ DOMAIN si.Metadata # {}
  /\ last.err = ErrServiceInstanceNameEmpty

(***************************************************************************)
(* C3, as stated: a malformed endpoint (unparseable URL, missing host or   *)
(* port, non-integer port) makes Register or Deregister return an error    *)
(* with no client call for that endpoint or any endpoint after it.         *)
(***************************************************************************)
C3_MalformedEndpointAborts ==
  (last.op \in {"Register", "Deregister"} /\ si.Name # <<>>) =>
    \A m \in 1..Len(si.Endpoints) :
      (Malformed(si.Endpoints[m]) /\ last.failed \notin 1..(m - 1))
        => /\ last.err # Nil
           /\ Len(last.calls) < m

(***************************************************************************)
(* C4: a successful Register of an instance with N well-formed endpoints   *)
(* issues exactly N RegisterInstance calls, in list order, the i-th with   *)
(* the i-th endpoint's host and port, ServiceName = Name.scheme, the       *)
(* configured weight, cluster and group, and Enable = Healthy = Ephemeral  *)
(* = true; the store then holds one record per endpoint key.               *)
(***************************************************************************)
C4_OneCallPerEndpoint ==
  (last.op = "Register" /\ last.err = Nil /\ AllWellFormed(si))
    => /\ Len(last.calls) = Len(si.Endpoints)
       /\ \A i \in 1..Len(si.Endpoints) :
            LET p == PartsOf(si.Endpoints[i])
                c == last.calls[i]
            IN /\ c.Ip = HostOfParts(p)
               /\ c.Port = PortOfParts(p)
               /\ c.ServiceName = si.Name \o <<".">> \o SchemeOfParts(p)
               /\ c.Weight = opts.weight
               /\ c.ClusterName = opts.cluster
               /\ c.GroupName = opts.group
               /\ c.Enable /\ c.Healthy /\ c.Ephemeral
               /\ \E j \in 1..Len(store) : KeyOf(store[j]) = KeyOf(c)
       /\ (opts = DefaultOptions =>
             \A i \in 1..Len(last.calls) :
               /\ last.calls[i].Weight = 100
               /\ last.calls[i].ClusterName = "DEFAULT"
               /\ last.calls[i].GroupName = "DEFAULT_GROUP")

C4_Witness ==
  /\ last.op = "Register"
  /\ last.err = Nil
  /\ AllWellFormed(si)
  /\ Len(si.Endpoints) = 2
  /\ Len(last.calls) = 2
  /\ last.calls[1].ServiceName # last.calls[2].ServiceName
  /\ Len(store) = 2

(***************************************************************************)
(* C5: the metadata sent with each RegisterInstance call is {"kind":       *)
(* scheme, "version": Version} overlaid with the instance's Metadata: the  *)
(* instance's value for each of its keys, the scheme and the Version for   *)
(* "kind" and "version" when the instance does not set them; and Register  *)
(* leaves the instance's own Metadata as it was.                           *)
(***************************************************************************)
C5_MetadataSent ==
  last.op = "Register" =>
    \A i \in 1..Len(last.calls) :
      LET sent == last.calls[i].Metadata
          own == si.Metadata
      IN /\ DOMAIN sent = {"kind", "version"} \cup DOMAIN own
         /\ \A k \in DOMAIN own : sent[k] = own[k]
         /\ ("kind" \notin DOMAIN own
               => sent["kind"] = SchemeOfParts(PartsOf(si.Endpoints[i])))
         /\ ("version" \notin DOMAIN own => sent["version"] = si.Version)

C5_MetadataOverlay == [] C5_MetadataSent /\ [][si' = si]_vars

C5_Witness ==
  /\ last.op = "Register"
  /\ Len(last.calls) = 2
  /\ "kind" \in DOMAIN si.Metadata
  /\ "version" \notin DOMAIN si.Metadata
  /\ last.calls[1].Metadata["kind"] = si.Metadata["kind"]
  /\ last.calls[1].Metadata["kind"] # SchemeOfParts(PartsOf(si.Endpoints[1]))
  /\ last.calls[1].Metadata["version"] = si.Version

(***************************************************************************)
(* C6: Deregister issues one DeregisterInstance call per endpoint, keyed   *)
(* by the Ip, Port, composed name, cluster and group that Register uses    *)
(* for that endpoint; so a successful Deregister(si) leaves no record      *)
(* that Register(si) created.                                              *)
(***************************************************************************)
DeregisterKey(param) ==
  <<param.Ip, param.Port, param.ServiceName, param.Cluster, param.GroupName>>

\* what Register(si) sends when every call succeeds
RegisterCalls == RegisterResult(opts, si, <<>>, 0).calls

C6_DeregisterMirrorsRegister ==
  (last.op = "Deregister" /\ si.Name # <<>>)
    => /\ Len(last.calls) <= Len(RegisterCalls)
       /\ \A i \in 1..Len(last.calls) :
            /\ DeregisterKey(last.calls[i]) = KeyOf(RegisterCalls[i])
            /\ last.calls[i].Ephemeral
       /\ (last.err = Nil
             => /\ Len(last.calls) = Len(si.Endpoints)
                /\ \A j \in 1..Len(store) : \A i \in 1..Len(RegisterCalls) :
                     KeyOf(store[j]) # KeyOf(RegisterCalls[i]))

C6_Witness ==
  /\ last.op = "Deregister"
  /\ last.err = Nil
  /\ last.pre
  /\ si.Name # <<>>
  /\ Len(si.Endpoints) = 2
  /\ Len(last.calls) = 2
  /\ last.calls[1].ServiceName # last.calls[2].ServiceName
  /\ store = <<>>

(***************************************************************************)
(* C7: when the client fails on the k-th endpoint during Register or       *)
(* Deregister, the call returns an error at once: the k-th call is the     *)
(* last one issued, each endpoint before it was called once, what those    *)
(* calls did to the store stays, and Register's error names the failing    *)
(* endpoint.                                                               *)
(***************************************************************************)
RECURSIVE ApplyRegisters(_, _)
ApplyRegisters(st, params) ==
  IF params = <<>> THEN st
  ELSE ApplyRegisters(ClientRegisterInstance(st, Head(params)), Tail(params))

RECURSIVE ApplyDeregisters(_, _)
ApplyDeregisters(st, params) ==
  IF params = <<>> THEN st
  ELSE ApplyDeregisters(ClientDeregisterInstance(st, Head(params)), Tail(params))

C7_FailedCallIsLast ==
  (last.op \in {"Register", "Deregister"} /\ last.failed > 0)
    => /\ last.err # Nil
       /\ Len(last.calls) = last.failed
       /\ \A i \in 1..Len(last.calls) :
            /\ last.calls[i].Ip = HostOfParts(PartsOf(si.Endpoints[i]))
            /\ last.calls[i].Port = PortOfParts(PartsOf(si.Endpoints[i]))
            /\ last.calls[i].ServiceName = NameOfEndpoint(si, si.Endpoints[i])
       /\ (last.op = "Register"
             => last.err = Err("RegisterInstance err", si.Endpoints[last.failed]))

C7_EarlierCallsStay ==
  /\ (last'.op = "Register" /\ last'.failed > 0)
       => store' = ApplyRegisters(store, SubSeq(last'.calls, 1, last'.failed - 1))
  /\ (last'.op = "Deregister" /\ last'.failed > 0)
       => store' = ApplyDeregisters(store, SubSeq(last'.calls, 1, last'.failed - 1))

C7_AbortOnClientFailure == [] C7_FailedCallIsLast /\ [][C7_EarlierCallsStay]_vars

C7_Witness ==
  /\ last.op = "Register"
  /\ last.failed = 2
  /\ Len(si.Endpoints) = 2
  /\ Len(last.calls) = 2
  /\ last.err = Err("RegisterInstance err", si.Endpoints[2])
  /\ Len(store) = 1
  /\ KeyOf(store[1]) = KeyOf(last.calls[1])

(***************************************************************************)
(* C9: with a client that keeps one record per endpoint key, repeating     *)
(* Register(si) after failed calls until it succeeds leaves exactly one    *)
(* record per distinct endpoint of si, the store a single Register(si)     *)
(* that succeeded at once would have left.                                 *)
(***************************************************************************)
EndpointKeys == { KeyOfEndpoint(opts, si, si.Endpoints[i]) : i \in 1..Len(si.Endpoints) }

C9_RetryUntilSuccess ==
  (last.op = "Register" /\ last.err = Nil)
    => /\ \A key \in EndpointKeys :
            Cardinality({ j \in 1..Len(store) : KeyOf(store[j]) = key }) = 1
       /\ Len(store) = Cardinality(EndpointKeys)
       /\ (run.failures => store = RegisterResult(opts, si, run.base, 0).store)

C9_Witness ==
  /\ last.op = "Register"
  /\ last.err = Nil
  /\ run.failures
  /\ run.base = <<>>
  /\ Len(si.Endpoints) = 2
  /\ Len(store) = 2

(***************************************************************************)
(* C8: GetService queries the client with the given name, the configured   *)
(* group and HealthyOnly = true, so no unhealthy instance is returned, and *)
(* maps each returned record to one ServiceInstance, in order, with ID =   *)
(* instance id, Name = the record's service name, Version =                *)
(* metadata["version"] or empty, and the single endpoint                   *)
(* "<kind>://<ip>:<port>", kind being metadata["kind"] when present and    *)
(* the configured default kind otherwise.                                  *)
(***************************************************************************)
\* the records of the queried name and group that are healthy
HealthyMatches ==
  LET Match(rec) ==
        rec.ServiceName = last.arg /\ rec.GroupName = opts.group /\ rec.Healthy
  IN SelectSeq(store, Match)

\* endpoint reads kind "://" ip ":" and the port in decimal
EndpointReads(endpoint, kind, ip, port) ==
  LET prefix == kind \o <<":", "/", "/">> \o ip \o <<":">>
      digits == Tail_(endpoint, Len(prefix) + 1)
  IN /\ HasPrefix(endpoint, prefix)
     /\ digits # <<>>
     /\ \A i \in 1..Len(digits) : digits[i] \in Digits
     /\ (Len(digits) > 1 => digits[1] # "0")
     /\ ParseDigits(digits, 0) = port

C8_GetServiceMapping ==
  last.op = "GetService"
    => /\ last.calls = <<[ServiceName |-> last.arg, GroupName |-> opts.group,
                          HealthyOnly |-> TRUE]>>
       /\ (last.err = Nil
             => /\ Len(last.items) = Len(HealthyMatches)
                /\ \A i \in 1..Len(last.items) :
                     LET item == last.items[i]
                         rec == HealthyMatches[i]
                         tags == rec.Metadata
                     IN /\ item.ID = rec.InstanceId
                        /\ item.Name = rec.ServiceName
                        /\ item.Version = IF "version" \in DOMAIN tags
                                          THEN tags["version"] ELSE <<>>
                        /\ item.Metadata = tags
                        /\ Len(item.Endpoints) = 1
                        /\ EndpointReads(item.Endpoints[1],
                             IF "kind" \in DOMAIN tags THEN tags["kind"] ELSE opts.kind,
                             rec.Ip, rec.Port))

C8_Witness ==
  /\ last.op = "GetService"
  /\ last.err = Nil
  /\ Len(store) = 2
  /\ \E i \in 1..2 :
       /\ ~store[i].Healthy
       /\ store[i].ServiceName = last.arg
       /\ store[i].GroupName = opts.group
  /\ Len(last.items) = 1
  /\ "kind" \notin DOMAIN last.items[1].Metadata
  /\ last.items[1].Endpoints = <<FormatEndpoint(opts.kind, <<"h">>, 1)>>
  /\ last.items[1].Version = <<>>

(***************************************************************************)
(* C10: each Watch call makes exactly one watcher session, subscribed for  *)
(* the given name under the configured group, the default kind and the     *)
(* single configured cluster; once the caller cancels the context, a       *)
(* blocked Next returns the cancellation and the session's subscription    *)
(* is released, so that no subscription stays open.                        *)
(***************************************************************************)
C10_OneSessionPerWatch ==
  /\ Len(watch.sessions) = Len(watch.asked)
  /\ \A i \in Sessions :
       /\ watch.sessions[i].args.serviceName = watch.asked[i]
       /\ watch.sessions[i].args.group = opts.group
       /\ watch.sessions[i].args.kind = opts.kind
       /\ watch.sessions[i].args.clusters = <<opts.cluster>>

BlockedAfterCancel(i) ==
  i \in Sessions /\ watch.ctx = "cancelled" /\ watch.sessions[i].next = "blocked"
OpenAfterCancel(i) ==
  i \in Sessions /\ watch.ctx = "cancelled" /\ watch.sessions[i].subscribed
ReturnedCancelled(i) == i \in Sessions /\ watch.sessions[i].next = "cancelled"
Released(i) == i \in Sessions /\ ~watch.sessions[i].subscribed

\* a released session is not subscribed again, and a cancelled context stays so
C10_StaysReleased ==
  /\ \A i \in 1..MaxWatchers : Released(i) => Released(i)'
  /\ watch.ctx = "cancelled" => watch'.ctx = "cancelled"

=============================================================================
